---- MODULE Spec2Model ----
(***************************************************************************)
(* A model of src-tauri/src/lib.rs: the two commands greet and list_files, *)
(* and the startup routine run().                                          *)
(*                                                                         *)
(* Rust strings are TLA+ strings.  An OsString (a directory entry's name)  *)
(* is a sequence of bytes; OsString::into_string validates it as UTF-8 and *)
(* the decoded String is built character by character.                     *)
(***************************************************************************)
EXTENDS Integers, Sequences, FiniteSets, TLC

(***************************************************************************)
(* Bounds of the model.                                                    *)
(***************************************************************************)
\* invocations the frontend makes in one run of Spec / FairSpec
MaxInv == 2
\* entries of a directory
MaxEntries == 2
\* invocations, and steps of other processes on the filesystem, in SpecRace
MaxRaceInv == 1
MaxFsOps == 1

Ids == 1..(IF MaxInv > MaxRaceInv THEN MaxInv ELSE MaxRaceInv)

(***************************************************************************)
(* Text.                                                                   *)
(***************************************************************************)
\* the bytes entry names are made of: . a b s t u x (46, 97, 98, 115, 116,
\* 117, 120) and the two bytes of U+00E9, the lead byte 0xC3 (195) and the
\* continuation byte 0xA9 (169)
AsciiChar == (46 :> ".") @@ (97 :> "a") @@ (98 :> "b") @@ (115 :> "s")
             @@ (116 :> "t") @@ (117 :> "u") @@ (120 :> "x")

HexDigit == <<"0", "1", "2", "3", "4", "5", "6", "7", "8", "9",
              "A", "B", "C", "D", "E", "F">>

\* a byte as Debug prints it inside an invalid OsStr: \xHH
HexEscape(b) == "\\x" \o HexDigit[(b \div 16) + 1] \o HexDigit[(b % 16) + 1]

IsCont(b) == b >= 128 /\ b <= 191

\* the number of bytes of the UTF-8 character of bs that starts at k, 0 when
\* no well-formed character starts there (1- and 2-byte forms; the alphabet
\* holds no lead byte of a longer form)
CharLen(bs, k) ==
    IF bs[k] < 128 THEN 1
    ELSE IF bs[k] >= 194 /\ bs[k] <= 223 /\ k + 1 <= Len(bs) /\ IsCont(bs[k + 1]) THEN 2
    ELSE 0

\* the character of bs that starts at k, as text
CharText(bs, k) ==
    IF CharLen(bs, k) = 1 THEN AsciiChar[bs[k]]
    ELSE IF bs[k] = 195 /\ bs[k + 1] = 169 THEN "é"
    ELSE "?"

\* str::from_utf8 accepts bs
ValidUtf8(bs) ==
    LET ok[k \in 1..(Len(bs) + 1)] ==
            IF k > Len(bs) THEN TRUE
            ELSE IF CharLen(bs, k) = 0 THEN FALSE
            ELSE ok[k + CharLen(bs, k)]
    IN ok[1]

\* the text of well-formed bs
DecodeUtf8(bs) ==
    LET txt[k \in 1..(Len(bs) + 1)] ==
            IF k > Len(bs) THEN ""
            ELSE CharText(bs, k) \o txt[k + CharLen(bs, k)]
    IN txt[1]

\* the Debug form of an OsString: between quotes, well-formed characters as
\* they are and every other byte as \xHH
DebugOsString(bs) ==
    LET txt[k \in 1..(Len(bs) + 1)] ==
            IF k > Len(bs) THEN ""
            ELSE IF CharLen(bs, k) = 0
                 THEN HexEscape(bs[k]) \o txt[k + 1]
                 ELSE CharText(bs, k) \o txt[k + CharLen(bs, k)]
    IN "\"" \o txt[1] \o "\""

\* format!: a template is a sequence of pieces, a literal or the hole of
\* the k-th argument
Lit(s) == [lit |-> s, hole |-> 0]
Hole(k) == [lit |-> "", hole |-> k]

Format(tpl, args) ==
    LET txt[k \in 1..(Len(tpl) + 1)] ==
            IF k > Len(tpl) THEN ""
            ELSE (IF tpl[k].hole = 0 THEN tpl[k].lit ELSE args[tpl[k].hole])
                 \o txt[k + 1]
    IN txt[1]

\* Result<T, String>
Ok(v) == [tag |-> "Ok", val |-> v]
Err(m) == [tag |-> "Err", val |-> m]
NoResult == [tag |-> "None", val |-> ""]

\* Display of std::io::Error for an OS error
IoErrorText(e) ==
    CASE e = "ENOENT" -> "No such file or directory (os error 2)"
      [] e = "EIO" -> "Input/output error (os error 5)"
      [] e = "EACCES" -> "Permission denied (os error 13)"
      [] e = "ENOTDIR" -> "Not a directory (os error 20)"

(***************************************************************************)
(* The filesystem, as list_files observes it.                              *)
(***************************************************************************)
Paths == {"/d", "/f"}

\* a node: what is at a path.  access = "denied": the metadata of the path
\* cannot be read (a directory on the way to it is not searchable).
\* open = "denied": the directory itself cannot be opened for reading.
Absent == [kind |-> "absent", access |-> "ok", open |-> "ok", entries |-> <<>>]
File(a) == [kind |-> "file", access |-> a, open |-> "ok", entries |-> <<>>]
Dir(a, o, es) == [kind |-> "dir", access |-> a, open |-> o, entries |-> es]

\* an item of a directory stream: an entry with its name, or the I/O error
\* the read of the entry ended in
Entry(n) == [name |-> n, err |-> ""]
EntryError(e) == [name |-> <<>>, err |-> e]

\* a.txt, sub, U+00E9, and 0xC3 a: a lead byte with no continuation byte
EntryNames == { <<97, 46, 116, 120, 116>>, <<115, 117, 98>>, <<195, 169>>,
                <<195, 97>> }
StreamItems == {Entry(n) : n \in EntryNames} \cup {EntryError("EIO")}

\* the names of a directory are distinct
DistinctNames(es) ==
    \A i, j \in DOMAIN es :
        (i # j /\ es[i].err = "" /\ es[j].err = "") => es[i].name # es[j].name

ListingsOf(items) ==
    {es \in UNION {[1..n -> items] : n \in 0..MaxEntries} : DistinctNames(es)}
Listings == ListingsOf(StreamItems)

DirNodes == {Dir("ok", "ok", es) : es \in Listings}
            \cup {Dir("ok", "denied", <<>>), Dir("denied", "ok", <<>>)}
SmallNodes == {Absent, File("ok"), File("denied"), Dir("ok", "ok", <<>>)}
\* what another process may put at a path
RaceNodes == SmallNodes \cup {Dir("ok", "ok", <<Entry(<<115, 117, 98>>)>>)}
Nodes == DirNodes \cup SmallNodes
\* the nodes FairSpec starts from
FairNodes ==
    {Dir("ok", "ok", es) :
        es \in ListingsOf({Entry(<<97, 46, 116, 120, 116>>), Entry(<<195, 97>>)})}
    \cup {Absent, File("ok"), Dir("ok", "denied", <<>>)}

\* fs::metadata, which follows the path
Metadata(f, path) ==
    IF f[path].kind = "absent" THEN [ok |-> FALSE, kind |-> "", errno |-> "ENOENT"]
    ELSE IF f[path].access = "denied"
         THEN [ok |-> FALSE, kind |-> "", errno |-> "EACCES"]
         ELSE [ok |-> TRUE, kind |-> f[path].kind, errno |-> ""]

\* Path::exists: the metadata can be read
PathExistsNoCheck(f, path) == TRUE
PathExists(f, path) == Metadata(f, path).ok

\* Path::is_dir: the metadata can be read and says directory
PathIsDir(f, path) == Metadata(f, path).ok /\ Metadata(f, path).kind = "dir"

\* what the first read of an opened directory fetches: the entries . and ..
\* and then the directory's own
DotEntries == <<Entry(<<46>>), Entry(<<46, 46>>)>>
DirStream(entries) == DotEntries \o entries

\* opening a directory for reading: fs::read_dir opens the directory and
\* reads nothing yet
OpenDir(f, path) ==
    IF f[path].kind = "absent" THEN [ok |-> FALSE, errno |-> "ENOENT"]
    ELSE IF f[path].access = "denied" THEN [ok |-> FALSE, errno |-> "EACCES"]
    ELSE IF f[path].kind = "file" THEN [ok |-> FALSE, errno |-> "ENOTDIR"]
    ELSE IF f[path].open = "denied" THEN [ok |-> FALSE, errno |-> "EACCES"]
    ELSE [ok |-> TRUE, errno |-> ""]

\* the items of s at the indices I, in the order of s
Pick(s, I) ==
    [k \in 1..Cardinality(I) |->
        s[CHOOSE j \in I : Cardinality({m \in I : m < j}) = k - 1]]

\* what one read returns of the items s that are due: a read returns
\* entries or fails, never both, so it returns the entries before the first
\* failure, or the failure when that is the first item
ReadCut(s) ==
    LET k == CHOOSE k \in 1..(Len(s) + 1) :
                 /\ k <= Len(s) => s[k].err # ""
                 /\ \A j \in 1..(k - 1) : s[j].err = ""
    IN IF k = 1 /\ Len(s) > 0 THEN <<s[1]>> ELSE SubSeq(s, 1, k - 1)

\* the batches a read of an open directory may fetch.  handle: "linked", the
\* directory is where it was opened; "detached", it was moved away; "dead",
\* it was removed, and the read reports the end of the stream.  The first
\* read starts with . and ..; a later read goes on with the items not
\* fetched yet.  dirty: the directory was modified after the first read, and
\* whether a later read returns an entry not fetched yet is up to the
\* filesystem.
Getdents(handle, entries, fetched, got, dirty) ==
    LET due == {j \in DOMAIN entries : entries[j] \notin got}
    IN IF handle = "dead" THEN {<<>>}
       ELSE IF ~fetched THEN {ReadCut(DirStream(entries))}
       ELSE IF dirty THEN {ReadCut(Pick(entries, I)) : I \in SUBSET due}
       ELSE {ReadCut(Pick(entries, due))}

\* ReadDir::next: the next item of the stream that is not . or ..
IsDot(e) == e.err = "" /\ e.name \in {<<46>>, <<46, 46>>}
ReadDirNext(s) ==
    LET k == CHOOSE k \in 1..(Len(s) + 1) :
                 /\ k <= Len(s) => ~IsDot(s[k])
                 /\ \A j \in 1..(k - 1) : IsDot(s[j])
    IN IF k > Len(s)
       THEN [none |-> TRUE, entry |-> EntryError(""), rest |-> <<>>]
       ELSE [none |-> FALSE, entry |-> s[k], rest |-> SubSeq(s, k + 1, Len(s))]

(***************************************************************************)
(* greet and list_files, as functions.                                     *)
(***************************************************************************)
greetNoBang(name) ==
    Format(<<Lit("Hello, "), Hole(1), Lit(" You've been greeted from Rust!")>>,
           <<name>>)
greet(name) ==
    Format(<<Lit("Hello, "), Hole(1), Lit("! You've been greeted from Rust!")>>,
           <<name>>)

\* fs::read_dir(dir).map_err(..)?: the directory is open, or the function
\* returns ret
ReadDirStepSwallow(f, path) == [open |-> OpenDir(f, path).ok, ret |-> Ok(<<>>)]
ReadDirStepUnwrap(f, path) ==
    [open |-> OpenDir(f, path).ok,
     ret |-> [tag |-> "Panic", val |-> "called Result::unwrap() on an Err value"]]
ReadDirStep(f, path) ==
    [open |-> OpenDir(f, path).ok,
     ret |-> IF OpenDir(f, path).ok THEN NoResult
             ELSE Err(Format(<<Lit("Failed to read directory '"), Hole(1),
                               Lit("': "), Hole(2)>>,
                             <<path, IoErrorText(OpenDir(f, path).errno)>>))]

\* the closure applied to every item of the stream
EntryStep(e) ==
    IF e.err # ""
    THEN Err(Format(<<Lit("Failed to read entry: "), Hole(1)>>, <<IoErrorText(e.err)>>))
    ELSE IF ValidUtf8(e.name)
         THEN Ok(DecodeUtf8(e.name))
         ELSE Err(Format(<<Lit("Non-UTF-8 filename: "), Hole(1)>>,
                         <<DebugOsString(e.name)>>))

\* one step of collect() into Result<Vec<String>, String>: the first Err is
\* the result of the whole, an Ok is pushed
CollectStepSkip(acc, r) == IF r.tag = "Ok" THEN Ok(Append(acc, r.val)) ELSE Ok(acc)
CollectStepPrepend(acc, r) == IF r.tag = "Ok" THEN Ok(<<r.val>> \o acc) ELSE Err(r.val)
CollectStep(acc, r) == IF r.tag = "Ok" THEN Ok(Append(acc, r.val)) ELSE Err(r.val)

RECURSIVE CollectAll(_, _)
CollectAll(stream, acc) ==
    IF ReadDirNext(stream).none THEN Ok(acc)
    ELSE LET c == CollectStep(acc, EntryStep(ReadDirNext(stream).entry))
         IN IF c.tag = "Ok" THEN CollectAll(ReadDirNext(stream).rest, c.val) ELSE c

list_files(f, path) ==
    IF ~PathExists(f, path)
    THEN Err(Format(<<Lit("Path does not exist: "), Hole(1)>>, <<path>>))
    ELSE IF ~PathIsDir(f, path)
    THEN Err(Format(<<Lit("Path is not a directory: "), Hole(1)>>, <<path>>))
    ELSE IF ReadDirStep(f, path).open
    THEN CollectAll(DirStream(f[path].entries), <<>>)
    ELSE ReadDirStep(f, path).ret

(***************************************************************************)
(* The program: run() and the invocations the frontend makes.              *)
(***************************************************************************)
\* the chain of run(), in the order of the source
RunSteps == <<"plugin:notification", "plugin:dialog", "plugin:shell",
              "invoke_handler", "run">>
PluginOf(step) ==
    CASE step = "plugin:notification" -> "notification"
      [] step = "plugin:dialog" -> "dialog"
      [] step = "plugin:shell" -> "shell"

\* generate_handler![greet, list_files]
HandlersGreetOnly == {"greet"}
Handlers == {"greet", "list_files"}

\* #[tauri::command(async)]: the command runs off the main thread
IsAsyncNever(cmd) == FALSE
IsAsync(cmd) == cmd = "list_files"

\* the Vec that collect() of invocation i builds is the invocation's own
SlotShared(i) == 1
Slot(i) == i

\* what the frontend may ask for
Commands == {"greet", "list_files", "read_file"}
GreetNames == {"", "Bob"}
ArgsOf(cmd) ==
    CASE cmd = "greet" -> GreetNames
      [] cmd = "list_files" -> Paths
      [] OTHER -> {""}

\* what makes the build of the application fail
StartupErrors == {"PluginInitialization", "Setup"}
ExpectMessage == "error while running tauri application"

\* handle, moved: the open directory and, once it was moved away, what it
\* holds; stream: the items fetched and not yet taken; got: all items fetched
IdleCall == [cmd |-> "none", arg |-> "", pc |-> "idle",
             handle |-> "none", moved |-> <<>>, fetched |-> FALSE, dirty |-> FALSE,
             stream |-> <<>>, got |-> {},
             result |-> NoResult, delivered |-> 0, opens |-> 0]

VARIABLES
    fs,          \* the filesystem: what is at every path
    fsOps,       \* steps other processes have made on the filesystem
    ran,         \* the steps of run() executed so far
    plugins,     \* the plugins registered with the builder, in order
    handlers,    \* the commands of the invoke handler
    appState,    \* "building", "running" or "panicked"
    diag,        \* the panic message of a failed startup
    calls,       \* the invocations
    vecs,        \* the Vec<String> under construction, by slot
    mainThread   \* the invocation the main thread is running, 0 for none

vars == <<fs, fsOps, ran, plugins, handlers, appState, diag, calls, vecs, mainThread>>
appVars == <<ran, plugins, handlers, appState, diag>>

InitWith(nodesD, nodesF) ==
    /\ fs \in [Paths -> Nodes]
    /\ fs["/d"] \in nodesD
    /\ fs["/f"] \in nodesF
    /\ fsOps = 0
    /\ ran = <<>>
    /\ plugins = <<>>
    /\ handlers = {}
    /\ appState = "building"
    /\ diag = ""
    /\ calls = [i \in Ids |-> IdleCall]
    /\ vecs = [i \in Ids |-> <<>>]
    /\ mainThread = 0

Init == InitWith(Nodes, {File("ok"), File("denied")})
InitFair == InitWith(FairNodes, {File("ok")})

\* ---- run() ----
\* .plugin(..), three times, and .invoke_handler(..)
BuilderStep ==
    /\ appState = "building"
    /\ Len(ran) < Len(RunSteps)
    /\ RunSteps[Len(ran) + 1] # "run"
    /\ LET step == RunSteps[Len(ran) + 1]
       IN /\ ran' = Append(ran, step)
          /\ IF step = "invoke_handler"
             THEN handlers' = Handlers /\ UNCHANGED plugins
             ELSE plugins' = Append(plugins, PluginOf(step)) /\ UNCHANGED handlers
    /\ UNCHANGED <<fs, fsOps, appState, diag, calls, vecs, mainThread>>

\* .run(..) builds the application and enters the event loop
RunOk ==
    /\ appState = "building"
    /\ Len(ran) < Len(RunSteps)
    /\ RunSteps[Len(ran) + 1] = "run"
    /\ ran' = Append(ran, "run")
    /\ appState' = "running"
    /\ UNCHANGED <<fs, fsOps, plugins, handlers, diag, calls, vecs, mainThread>>

\* .run(..) returns Err and .expect(..) panics
RunFail ==
    /\ appState = "building"
    /\ Len(ran) < Len(RunSteps)
    /\ RunSteps[Len(ran) + 1] = "run"
    /\ \E e \in StartupErrors :
          diag' = Format(<<Hole(1), Lit(": "), Hole(2)>>, <<ExpectMessage, e>>)
    /\ ran' = Append(ran, "run")
    /\ appState' = "panicked"
    /\ UNCHANGED <<fs, fsOps, plugins, handlers, calls, vecs, mainThread>>

\* ---- invocations ----
\* invocation i ends with outcome r: an Ok or an Err is delivered to the
\* frontend, and the main thread is free again if i held it
Finish(i, r) ==
    /\ calls' = [calls EXCEPT ![i].pc = "done", ![i].result = r,
                              ![i].handle = "none", ![i].moved = <<>>,
                              ![i].fetched = FALSE, ![i].dirty = FALSE,
                              ![i].stream = <<>>, ![i].got = {},
                              ![i].delivered = @ + (IF r.tag \in {"Ok", "Err"} THEN 1 ELSE 0)]
    /\ mainThread' = IF mainThread = i THEN 0 ELSE mainThread

\* the frontend invokes command cmd; the main thread takes the message and
\* looks the command up in the handler
InvokeCmd(limit, cmd) ==
    /\ appState = "running"
    /\ mainThread = 0
    /\ \E i \in 1..limit :
          /\ calls[i].pc = "idle"
          /\ \A j \in 1..(i - 1) : calls[j].pc # "idle"
          /\ \E a \in ArgsOf(cmd) :
                IF cmd \notin handlers
                THEN /\ calls' = [calls EXCEPT ![i].cmd = cmd, ![i].arg = a,
                                               ![i].pc = "done",
                                               ![i].result = [tag |-> "Rejected", val |-> cmd]]
                     /\ UNCHANGED mainThread
                ELSE /\ calls' = [calls EXCEPT ![i].cmd = cmd, ![i].arg = a,
                                               ![i].pc = IF cmd = "greet" THEN "greet"
                                                         ELSE "exists"]
                     /\ mainThread' = IF IsAsync(cmd) THEN 0 ELSE i
    /\ UNCHANGED <<fs, fsOps, appVars, vecs>>

Invoke(limit) == \E cmd \in Commands : InvokeCmd(limit, cmd)

\* greet runs and returns
GreetReturn(i) ==
    /\ calls[i].pc = "greet"
    /\ Finish(i, Ok(greet(calls[i].arg)))
    /\ UNCHANGED <<fs, fsOps, appVars, vecs>>

\* if !dir.exists() { return Err(..) }
CheckExists(i) ==
    /\ calls[i].pc = "exists"
    /\ IF PathExists(fs, calls[i].arg)
       THEN calls' = [calls EXCEPT ![i].pc = "is_dir"] /\ UNCHANGED mainThread
       ELSE Finish(i, Err(Format(<<Lit("Path does not exist: "), Hole(1)>>,
                                 <<calls[i].arg>>)))
    /\ UNCHANGED <<fs, fsOps, appVars, vecs>>

\* if !dir.is_dir() { return Err(..) }
CheckIsDir(i) ==
    /\ calls[i].pc = "is_dir"
    /\ IF PathIsDir(fs, calls[i].arg)
       THEN calls' = [calls EXCEPT ![i].pc = "read_dir"] /\ UNCHANGED mainThread
       ELSE Finish(i, Err(Format(<<Lit("Path is not a directory: "), Hole(1)>>,
                                 <<calls[i].arg>>)))
    /\ UNCHANGED <<fs, fsOps, appVars, vecs>>

\* fs::read_dir(dir).map_err(..)?, and collect() starts with an empty Vec
ReadDir(i) ==
    /\ calls[i].pc = "read_dir"
    /\ LET r == ReadDirStep(fs, calls[i].arg)
       IN IF r.open
          THEN /\ calls' = [calls EXCEPT ![i].pc = "iter", ![i].handle = "linked",
                                         ![i].opens = @ + 1]
               /\ vecs' = [vecs EXCEPT ![Slot(i)] = <<>>]
               /\ UNCHANGED mainThread
          ELSE /\ Finish(i, r.ret)
               /\ UNCHANGED vecs
    /\ UNCHANGED <<fs, fsOps, appVars>>

\* what the open directory of invocation i holds now
HandleEntries(i) ==
    IF calls[i].handle = "linked" THEN fs[calls[i].arg].entries ELSE calls[i].moved

\* collect() takes the next item, or returns the Vec at the end of the
\* stream.  next() takes an item fetched before, or reads the directory; each
\* read of the directory is a step of its own: a read that fetches nothing
\* is the end of the stream, one that fetches only . and .. is followed by
\* another read, and one that fails is the Err item of the stream.
Iterate(i) ==
    /\ calls[i].pc = "iter"
    /\ \E b \in (IF calls[i].stream # <<>> THEN {calls[i].stream}
                 ELSE Getdents(calls[i].handle, HandleEntries(i),
                               calls[i].fetched, calls[i].got,
                               calls[i].dirty)) :
          LET nx == ReadDirNext(b)
          IN IF b = <<>>
             THEN Finish(i, Ok(vecs[Slot(i)])) /\ UNCHANGED vecs
             ELSE IF nx.none
             THEN /\ calls' = [calls EXCEPT
                        ![i].stream = <<>>, ![i].fetched = TRUE,
                        ![i].got = @ \cup {b[k] : k \in DOMAIN b}]
                  /\ UNCHANGED <<vecs, mainThread>>
             ELSE LET c == CollectStep(vecs[Slot(i)], EntryStep(nx.entry))
                  IN IF c.tag = "Ok"
                     THEN /\ vecs' = [vecs EXCEPT ![Slot(i)] = c.val]
                          /\ calls' = [calls EXCEPT
                                ![i].stream = nx.rest, ![i].fetched = TRUE,
                                ![i].got = @ \cup {b[k] : k \in DOMAIN b}]
                          /\ UNCHANGED mainThread
                     ELSE Finish(i, c) /\ UNCHANGED vecs
    /\ UNCHANGED <<fs, fsOps, appVars>>

\* a step of list_files on the async runtime
Work(i) == CheckExists(i) \/ CheckIsDir(i) \/ ReadDir(i) \/ Iterate(i)

\* ---- other processes ----
\* another process changes what is at path p to n.  "remove": what was at p
\* is removed (a directory is emptied first) and n, if any, is new; "move":
\* what was at p is moved away, as it is, and n takes its place; "modify": the
\* directory at p stays and its entries or permissions change.  A directory
\* that an invocation holds open stays open.  A directory removed or moved
\* may be followed by an equal one: the path then names what it named
\* before, and the open directory is no longer the one at the path.
Hows == {"remove", "move", "modify"}
FsMutate ==
    /\ fsOps < MaxFsOps
    /\ \E p \in Paths, how \in Hows :
       \E n \in (IF how # "modify" /\ fs[p].kind = "dir"
                 THEN RaceNodes \cup {fs[p]} ELSE RaceNodes \ {fs[p]}) :
          /\ how = "modify" => (fs[p].kind = "dir" /\ n.kind = "dir")
          /\ fs' = [fs EXCEPT ![p] = n]
          /\ calls' = [i \in Ids |->
                IF calls[i].handle = "linked" /\ calls[i].arg = p /\ how # "modify"
                THEN [calls[i] EXCEPT
                        !.handle = IF how = "remove" THEN "dead" ELSE "detached",
                        !.moved = IF how = "remove" THEN <<>> ELSE fs[p].entries]
                ELSE IF calls[i].handle = "linked" /\ calls[i].arg = p
                        /\ calls[i].fetched
                THEN [calls[i] EXCEPT !.dirty = TRUE]
                ELSE calls[i]]
    /\ fsOps' = fsOps + 1
    /\ UNCHANGED <<appVars, vecs, mainThread>>

Next ==
    \/ BuilderStep
    \/ RunOk
    \/ RunFail
    \/ Invoke(MaxInv)
    \/ \E i \in Ids : GreetReturn(i)
    \/ \E i \in Ids : Work(i)

NextRace ==
    \/ BuilderStep
    \/ RunOk
    \/ RunFail
    \/ Invoke(MaxRaceInv)
    \/ \E i \in Ids : GreetReturn(i)
    \/ \E i \in Ids : Work(i)
    \/ FsMutate

\* the filesystem does not change
Spec == Init /\ [][Next]_vars

\* the filesystem does not change, and the async runtime runs every task
FairSpec == InitFair /\ [][Next]_vars /\ \A i \in Ids : WF_vars(Work(i))

\* other processes change the filesystem
SpecRace == Init /\ [][NextRace]_vars

(***************************************************************************)
(* The vocabulary of the claims.                                           *)
(***************************************************************************)
Done(i) == calls[i].pc = "done"
ListDone(i) == calls[i].cmd = "list_files" /\ Done(i)
GreetDone(i) == calls[i].cmd = "greet" /\ Done(i)
InFlight(i) == calls[i].pc \in {"exists", "is_dir", "read_dir", "iter"}

IoTexts == {"No such file or directory (os error 2)", "Input/output error (os error 5)",
            "Permission denied (os error 13)", "Not a directory (os error 20)"}

\* the kind of failure a message of list_files reports
ErrorKind(msg) ==
    IF \E p \in Paths : msg = "Path does not exist: " \o p THEN "PathNotFound"
    ELSE IF \E p \in Paths : msg = "Path is not a directory: " \o p THEN "NotADirectory"
    ELSE IF \E p \in Paths, t \in IoTexts :
               msg = "Failed to read directory '" \o p \o "': " \o t
         THEN "DirectoryReadError"
    ELSE IF \E t \in IoTexts : msg = "Failed to read entry: " \o t
         THEN "DirectoryReadError"
    ELSE IF msg = "Non-UTF-8 filename: \"\\xC3a\""
         THEN "InvalidEntryName"
    ELSE "Unknown"

ErrorKinds == {"PathNotFound", "NotADirectory", "DirectoryReadError", "InvalidEntryName"}

\* msg holds the text t
Contains(msg, t) ==
    \E a \in {"Path does not exist: ", "Path is not a directory: ",
              "Failed to read directory '", "Failed to read entry: "},
       b \in {""} \cup {"': " \o x : x \in IoTexts} :
        msg = a \o t \o b

\* the text of an entry name, where the name is text
NameText(n) ==
    CASE n = <<97, 46, 116, 120, 116>> -> "a.txt"
      [] n = <<115, 117, 98>> -> "sub"
      [] n = <<195, 169>> -> "é"
      [] OTHER -> "(not text)"
Decodable(n) == n \in {<<97, 46, 116, 120, 116>>, <<115, 117, 98>>, <<195, 169>>}

\* a directory the program can open, whose stream ends in no I/O error
Openable(node) == node.kind = "dir" /\ node.access = "ok" /\ node.open = "ok"
Readable(node) == Openable(node) /\ \A k \in DOMAIN node.entries : node.entries[k].err = ""
HasUndecodable(node) ==
    \E k \in DOMAIN node.entries :
        node.entries[k].err = "" /\ ~Decodable(node.entries[k].name)

SameResult(r1, r2) == r1.tag = r2.tag /\ r1.val = r2.val

(***************************************************************************)
(* The claims.                                                             *)
(***************************************************************************)

\* C1: list_files of a path that does not exist fails with PathNotFound, the
\* message holds the path, and no list is returned.
C1_PathNotFound ==
    \A i \in Ids :
        (ListDone(i) /\ fs[calls[i].arg].kind = "absent") =>
            /\ calls[i].result.tag = "Err"
            /\ ErrorKind(calls[i].result.val) = "PathNotFound"
            /\ Contains(calls[i].result.val, calls[i].arg)
            /\ calls[i].opens = 0

C1_Witness ==
    \E i \in Ids :
        /\ ListDone(i)
        /\ fs[calls[i].arg].kind = "absent"
        /\ calls[i].result = Err("Path does not exist: /d")

\* C2: list_files of a path that exists and is not a directory fails with
\* NotADirectory; NotADirectory is returned only for a path that exists,
\* and no enumeration is attempted.
C2_NotADirectory ==
    \A i \in Ids :
        /\ (ListDone(i) /\ fs[calls[i].arg].kind = "file") =>
              /\ calls[i].result.tag = "Err"
              /\ ErrorKind(calls[i].result.val) = "NotADirectory"
              /\ calls[i].opens = 0
        /\ (ListDone(i) /\ calls[i].result.tag = "Err"
              /\ ErrorKind(calls[i].result.val) = "NotADirectory") =>
              /\ fs[calls[i].arg].kind # "absent"
              /\ calls[i].opens = 0

\* C3: list_files of a readable directory with an entry whose name is not
\* text fails with InvalidEntryName, wherever the entry is in the stream;
\* and with such an entry no list is returned, whatever else the stream holds.
C3_AllOrNothing ==
    \A i \in Ids :
        LET node == fs[calls[i].arg]
        IN /\ (ListDone(i) /\ Readable(node) /\ HasUndecodable(node)) =>
                 /\ calls[i].result.tag = "Err"
                 /\ ErrorKind(calls[i].result.val) = "InvalidEntryName"
           /\ (ListDone(i) /\ Openable(node) /\ HasUndecodable(node)) =>
                 calls[i].result.tag = "Err"

C3_Witness ==
    \E i \in Ids :
        /\ ListDone(i)
        /\ fs[calls[i].arg] = Dir("ok", "ok", <<Entry(<<97, 46, 116, 120, 116>>),
                                                Entry(<<195, 97>>)>>)
        /\ calls[i].result = Err("Non-UTF-8 filename: \"\\xC3a\"")

\* C4: list_files of a readable directory whose names are all text returns
\* the names, each once, in the order of the stream, and nothing else; of an
\* empty directory, the empty sequence.
C4_ListsNames ==
    \A i \in Ids :
        LET node == fs[calls[i].arg]
        IN (ListDone(i) /\ Readable(node) /\ ~HasUndecodable(node)) =>
              /\ calls[i].result.tag = "Ok"
              /\ calls[i].result.val =
                    [k \in 1..Len(node.entries) |-> NameText(node.entries[k].name)]

C4_Witness ==
    \E i \in Ids :
        /\ ListDone(i)
        /\ fs[calls[i].arg] = Dir("ok", "ok", <<Entry(<<97, 46, 116, 120, 116>>),
                                                Entry(<<115, 117, 98>>)>>)
        /\ calls[i].result.tag = "Ok"
        /\ calls[i].result.val = <<"a.txt", "sub">>

\* C5: when the directory cannot be opened list_files fails with
\* DirectoryReadError and the cause; every failure is a message of one of
\* the four kinds; the directory is opened at most once; and a failure of
\* the enumeration is never left out of the result.
C5_ErrorTaxonomy ==
    \A i \in Ids :
        LET node == fs[calls[i].arg]
        IN ListDone(i) =>
              /\ (node.kind = "dir" /\ node.access = "ok" /\ node.open = "denied") =>
                    /\ calls[i].result.tag = "Err"
                    /\ ErrorKind(calls[i].result.val) = "DirectoryReadError"
                    /\ Contains(calls[i].result.val,
                                calls[i].arg \o "': Permission denied (os error 13)")
              /\ calls[i].result.tag \in {"Ok", "Err"}
              /\ calls[i].result.tag = "Err" =>
                    /\ calls[i].result.val \in STRING
                    /\ ErrorKind(calls[i].result.val) \in ErrorKinds
              /\ calls[i].opens <= 1
              /\ calls[i].delivered = 1
              /\ (Openable(node) /\ ~(Readable(node) /\ ~HasUndecodable(node))) =>
                    calls[i].result.tag = "Err"

C5_Witness ==
    \E i \in Ids :
        /\ ListDone(i)
        /\ fs[calls[i].arg] = Dir("ok", "denied", <<>>)
        /\ calls[i].result =
              Err("Failed to read directory '/d': Permission denied (os error 13)")

\* C6: greet of every name, the empty one too, returns
\* "Hello, " + name + "! You've been greeted from Rust!", never an error,
\* and two calls with the same name return the same string.
C6_Greet ==
    /\ \A i \in Ids :
          GreetDone(i) =>
              /\ calls[i].result.tag = "Ok"
              /\ calls[i].result.val =
                    "Hello, " \o calls[i].arg \o "! You've been greeted from Rust!"
    /\ \A i, j \in Ids :
          (GreetDone(i) /\ GreetDone(j) /\ calls[i].arg = calls[j].arg) =>
              SameResult(calls[i].result, calls[j].result)

C6_Witness ==
    \E i \in Ids :
        /\ GreetDone(i)
        /\ calls[i].arg = ""
        /\ calls[i].result = Ok("Hello, ! You've been greeted from Rust!")

\* C7: run() executes its steps once each and in order: the plugins
\* notification, dialog, shell, then the handler of exactly greet and
\* list_files, then the run loop; no command is dispatched before that; and
\* a failed startup ends in a panic with its message, no loop running.
C7_Startup ==
    /\ \E n \in 0..5 :
          ran = SubSeq(<<"plugin:notification", "plugin:dialog", "plugin:shell",
                         "invoke_handler", "run">>, 1, n)
    /\ \E n \in 0..3 : plugins = SubSeq(<<"notification", "dialog", "shell">>, 1, n)
    /\ handlers # {} => plugins = <<"notification", "dialog", "shell">>
    /\ Len(ran) >= 4 => handlers = {"greet", "list_files"}
    /\ Len(ran) < 4 => handlers = {}
    /\ appState = "building" <=> Len(ran) < 5
    /\ \A i \in Ids :
          calls[i].pc # "idle" =>
              /\ appState = "running"
              /\ calls[i].result.tag = "Rejected" <=> calls[i].cmd \notin {"greet", "list_files"}
    /\ appState = "panicked" =>
          /\ \E e \in StartupErrors :
                diag = "error while running tauri application: " \o e
          /\ \A i \in Ids : calls[i].pc = "idle"
    /\ appState # "panicked" => diag = ""

C7_Witness ==
    /\ appState = "running"
    /\ ran = <<"plugin:notification", "plugin:dialog", "plugin:shell",
               "invoke_handler", "run">>
    /\ \E i, j \in Ids : ListDone(i) /\ calls[i].result.tag = "Ok" /\ GreetDone(j)

\* C8: over a filesystem that does not change, every invocation returns
\* what it returns when it runs alone, whatever the others do.
C8_NoSharedState ==
    \A i \in Ids :
        /\ GreetDone(i) => SameResult(calls[i].result, Ok(greet(calls[i].arg)))
        /\ ListDone(i) => SameResult(calls[i].result, list_files(fs, calls[i].arg))

C8_Witness ==
    \E i, j \in Ids :
        /\ i # j
        /\ ListDone(i) /\ calls[i].result.tag = "Ok" /\ Len(calls[i].result.val) = 2
        /\ calls[j].cmd = "list_files" /\ calls[j].arg = calls[i].arg
        /\ calls[j].pc = "iter" /\ Len(vecs[j]) = 1

\* C9: list_files never runs on the main thread; while one is in flight
\* a greet can be accepted; and every list_files invocation delivers
\* one result, and never more than one.
C9_Async ==
    /\ [](\A i \in Ids : calls[i].cmd = "list_files" => mainThread # i)
    /\ []((/\ \E i \in Ids : InFlight(i)
           /\ \E i \in 1..MaxInv : calls[i].pc = "idle"
           /\ \A i \in Ids : calls[i].pc # "greet")
          => ENABLED InvokeCmd(MaxInv, "greet"))
    /\ \A i \in Ids :
          [](calls[i].cmd = "list_files" =>
                <>(Done(i) /\ calls[i].result.tag \in {"Ok", "Err"}
                           /\ calls[i].delivered = 1))
    /\ [](\A i \in Ids : calls[i].delivered <= 1)

C9_Witness ==
    \E i, j \in Ids :
        /\ i < j
        /\ calls[i].cmd = "list_files" /\ calls[i].pc = "iter"
        /\ GreetDone(j) /\ calls[j].result.tag = "Ok"

\* C10: the two checks and the opening of the directory are separate
\* observations: when the path is gone or is a file by the time the
\* directory is opened, list_files fails with DirectoryReadError; and every
\* invocation ends in one error or one list, which holds every entry the
\* reads of the directory fetched.
C10_Race ==
    /\ [](\A i \in Ids :
            ListDone(i) => /\ calls[i].result.tag \in {"Ok", "Err"}
                           /\ calls[i].delivered = 1)
    /\ [][\A i \in Ids :
            /\ (calls[i].pc = "read_dir" /\ calls'[i].pc # "read_dir"
                  /\ fs[calls[i].arg].kind \in {"absent", "file"}) =>
                  /\ calls'[i].pc = "done"
                  /\ calls'[i].result.tag = "Err"
                  /\ ErrorKind(calls'[i].result.val) = "DirectoryReadError"
            /\ (calls[i].pc = "iter" /\ calls'[i].pc = "done"
                  /\ calls'[i].result.tag = "Ok") =>
                  /\ calls[i].stream = <<>>
                  /\ Len(calls'[i].result.val) =
                        Cardinality({e \in calls[i].got : ~IsDot(e)})]_vars

C10_Witness ==
    \E i \in Ids :
        /\ ListDone(i)
        /\ fsOps > 0
        /\ calls[i].result \in
              {Err("Failed to read directory '/d': No such file or directory (os error 2)"),
               Err("Failed to read directory '/d': Not a directory (os error 20)")}
====
